---- MODULE Spec2Model ----
(***************************************************************************)
(* The Producer of src/lib/apis/producers.js: the config watcher, the job  *)
(* loop, the job runner and the result dispatcher, as one state machine.   *)
(* JavaScript runs one callback at a time, so every action is one callback *)
(* (a timer tick, an HTTP response, a settled promise, a facade call) run  *)
(* up to the point where every chain it started is suspended at an await   *)
(* of a call that has not returned yet.                                    *)
(***************************************************************************)
EXTENDS Integers, Sequences, FiniteSets, TLC

\* ------------------------------------------------------------- bounds
\* startCollectIntelligencesJob invocations that may be pending at once
MaxJobs == 2
\* batches with items getIntelligencesAPI serves; it caps ranJobNumber
MaxServed == 1
\* compareProducerConfiguration invocations awaiting getProducerAPI at once
MaxWatch == 1
\* calls of start(), stop() and setConfigs() the embedding service makes
MaxCalls == 2
\* the largest pollingInterval, in seconds
MaxInterval == 5
\* the longest batch sendToSOIAndDIA groups on its own
MaxGroup == 2

Slots == 1..MaxJobs

\* ------------------------------------------------------------- values
NoRef == <<0, 0>>
Gids == {"i1", "i2"}

\* an intelligence as getIntelligencesAPI returns it: no system.state yet
Item(g, d) == [gid |-> g, dest |-> d, state |-> "", reason |-> ""]

\* the batches getIntelligencesAPI may return; dest is the routing key of the
\* item's soi, "none" an item with a soi field missing
Batches ==
    { <<>>,
      <<Item("i1", "a")>>,
      <<Item("i1", "none")>> }

\* batches whose items target several destinations, or none
RichBatches ==
    { <<Item("i1", "a"), Item("i2", "b")>>,
      <<Item("i1", "a"), Item("i2", "a")>>,
      <<Item("i1", "a"), Item("i2", "none")>> }

\* the length of the longest batch
MaxBatch ==
    Len(CHOOSE b \in Batches \cup RichBatches :
           \A c \in Batches \cup RichBatches : Len(c) <= Len(b))

Dests == {"a", "b"}

Cfg(g, v, t, st) == [defined |-> TRUE, globalId |-> g, version |-> v, type |-> t, state |-> st]
UndefinedConfig == [defined |-> FALSE, globalId |-> "", version |-> "", type |-> "", state |-> ""]

\* what the control plane may answer to getProducerAPI
RemoteConfigs ==
    { Cfg("g1", "v1", "SERVICE", "ACTIVE"),
      Cfg("g1", "v2", "SERVICE", "ACTIVE"),
      Cfg("g1", "v1", "SERVICE", "INACTIVE") }

\* configs of another type, of the type in another case, without a type
OtherConfigs ==
    { Cfg("g1", "v3", "other", "ACTIVE"),
      Cfg("g1", "v4", "service", "ACTIVE"),
      Cfg("g1", "v5", "", "ACTIVE") }

\* this.__type
ProducerType == "SERVICE"

NoError == [status |-> 0, message |-> "null"]

\* errors getProducerAPI may throw: an HTTP status, or 0 for an error without one
FetchErrors == {500, 0}

\* ------------------------------------------------------------- state
VARIABLES
    ranJobNumber,                     \* this.__ranJobNumber
    currentProducerConfig,            \* this.__currentProducerConfig
    producerError,                    \* this.__producerError
    watchIntelligencesIntervalHandler,\* handle of the job-loop timer, 0 when none
    watchProducerIntervalHandler,     \* handle of the watcher timer, 0 when none
    intervals,                        \* the armed interval timers: <<kind, id>>
    runningJob,                       \* this.__runningJob
    configs,                          \* getConfigs(): which of BITSKY_BASE_URL, GLOBAL_ID are set
    configFetches,                    \* getProducerAPI calls in flight
    pc,                               \* per invocation of startCollectIntelligencesJob
    timeouts,                         \* the armed job timeouts, by arming invocation
    heap,                             \* the intelligence objects each invocation fetched
    dispatch,                         \* per job: the sendToSOIAndDIA call in flight
    fired,                            \* invocations whose timeout fired before their outcomes settled
    calls,                            \* facade calls made so far
    served,                           \* batches with items served so far
    polling,                          \* the pollingInterval sent, the default, the period armed
    grouping                          \* a list handed to sendToSOIAndDIA and its sois

vars == << ranJobNumber, currentProducerConfig, producerError,
           watchIntelligencesIntervalHandler, watchProducerIntervalHandler, intervals,
           runningJob, configs, configFetches, pc, timeouts, heap, dispatch, fired,
           calls, served, polling, grouping >>

\* the whole state as one record, so that a handler is a function on it
State ==
    [ ran |-> ranJobNumber, cur |-> currentProducerConfig, err |-> producerError,
      wi |-> watchIntelligencesIntervalHandler, wp |-> watchProducerIntervalHandler,
      intervals |-> intervals, rj |-> runningJob, configs |-> configs,
      fetches |-> configFetches, pc |-> pc, timeouts |-> timeouts, heap |-> heap,
      dispatch |-> dispatch, fired |-> fired, calls |-> calls, served |-> served, ok |-> TRUE ]

EmptyDict == [g \in Gids |-> NoRef]

\* the record of the constructor, lines 83-94, and of resetRunningJob
IdleJob ==
    [ totalIntelligences |-> <<>>, collectedIntelligencesDict |-> EmptyDict,
      collectedIntelligencesNumber |-> 0, jobId |-> 0, jobTimeout |-> FALSE,
      endingCollectIntelligencesJob |-> FALSE, jobTimeoutHandler |-> 0,
      lockJob |-> FALSE ]

\* a bucket of a sendToSOIAndDIA call: st is "soi" while its POST to the target
\* system is in flight, "dia" while its update of the control plane is, "none"
\* before and after; refs are its items, kept until the update is sent
NoBucket == [st |-> "none", refs |-> <<>>]

NoDispatch ==
    [ active |-> FALSE, cont |-> "none", buckets |-> [d \in Dests |-> NoBucket] ]

\* ------------------------------------------------------------- helpers
SeqMin(S) == CHOOSE x \in S : \A y \in S : x <= y

\* _.toUpper on the strings the model uses
ToUpper(str) ==
    CASE str = "service" -> "SERVICE"
      [] str = "active" -> "ACTIVE"
      [] str = "other" -> "OTHER"
      [] str = "inactive" -> "INACTIVE"
      [] OTHER -> str

\* clearInterval(handle)
ClearInterval(s, kind, h) == [s EXCEPT !.intervals = @ \ {<<kind, h>>}]

\* the handle a setInterval call returns: one no armed timer of the kind has
NewInterval(s, kind) ==
    SeqMin({n \in 1..(Cardinality(s.intervals) + 1) : <<kind, n>> \notin s.intervals})

\* clearTimeout(this.__runningJob.jobTimeoutHandler)
ClearJobTimeout(s) == [s EXCEPT !.timeouts = @ \ {s.rj.jobTimeoutHandler}]

\* the objects of invocation j are still reachable from the record or a dispatch
Referenced(s, j) ==
    \/ \E i \in 1..Len(s.rj.totalIntelligences) : s.rj.totalIntelligences[i][1] = j
    \/ \E g \in Gids : s.rj.collectedIntelligencesDict[g][1] = j
    \/ \E k \in Slots, d \in Dests :
          \E i \in 1..Len(s.dispatch[k].buckets[d].refs) :
             s.dispatch[k].buckets[d].refs[i][1] = j

\* nothing of invocation j is pending: its function returned, its timeout is
\* not armed, its dispatch not in flight, its objects unreachable
Finished(s, j) ==
    /\ s.pc[j] = "free"
    /\ j \notin s.timeouts
    /\ ~s.dispatch[j].active
    /\ ~Referenced(s, j)

\* forget the objects nothing can reach any more (garbage collection): those
\* of an invocation that returned and that neither the record nor a request
\* still to be sent refers to
Forget(s) ==
    [s EXCEPT !.heap = [j \in Slots |->
                          IF s.pc[j] = "free" /\ ~Referenced(s, j)
                          THEN <<>> ELSE s.heap[j]]]

\* a resetRunningJob that leaves the lock as it is
resetRunningJobKeepsLock(s) ==
    [ClearJobTimeout(s) EXCEPT !.rj = [IdleJob EXCEPT !.lockJob = s.rj.lockJob]]

\* ------------------------------------------------------------- running job
\* resetRunningJob, lines 814-826
resetRunningJob(s) == [ClearJobTimeout(s) EXCEPT !.rj = IdleJob]

\* setIntelligenceState, lines 422-441: reason "" is no reason given
setIntelligenceState(h, ref, state, reason) ==
    [h EXCEPT ![ref[1]][ref[2]] =
        [@ EXCEPT !.state = ToUpper(state),
                  !.reason = IF reason # "" THEN reason ELSE @]]

\* initRunningJob, lines 828-835: jobId is a fresh uuid, here a slot of which
\* nothing is pending and that is not the id released in this same callback
initRunningJob(s, avoid) ==
    LET r == Forget(resetRunningJob(s))
        F == {k \in Slots : Finished(r, k) /\ k # avoid}
    IN  IF F = {} THEN [s EXCEPT !.ok = FALSE]
        ELSE [r EXCEPT !.rj.jobId = SeqMin(F), !.rj.lockJob = TRUE]

\* startCollectIntelligencesJob up to its first await, lines 447-477
startCollectIntelligencesJob(s, avoid) ==
    IF \/ s.rj.jobId # 0
       \/ s.rj.lockJob
       \/ s.rj.endingCollectIntelligencesJob
    THEN s
    ELSE LET r == initRunningJob(s, avoid)
         IN  IF ~r.ok THEN r ELSE [r EXCEPT !.pc[r.rj.jobId] = "fetch"]

\* a startPollingGetIntelligences that arms without cancelling first
armJobLoopNoClear(s) ==
    IF ~s.cur.defined THEN s
    ELSE [s EXCEPT !.wi = NewInterval(s, "loop"),
                   !.intervals = @ \cup {<<"loop", NewInterval(s, "loop")>>}]

\* startPollingGetIntelligences after its await, lines 341-376; a missing
\* currentProducerConfig throws at line 346 and is caught at line 378
armJobLoop(s) ==
    IF ~s.cur.defined THEN s
    ELSE LET c == ClearInterval(s, "loop", s.wi)
         IN  [c EXCEPT !.wi = NewInterval(c, "loop"),
                       !.intervals = @ \cup {<<"loop", NewInterval(c, "loop")>>}]

\* what runs when endCollectIntelligencesJob returns to the caller awaiting
\* it: "start" is startPollingGetIntelligences (line 306) going on to arm the
\* timer, "none" a caller with nothing left to do (lines 304, 538, 586, 609)
Continue(s, cont) == IF cont = "start" /\ s.ok THEN armJobLoop(s) ELSE s

\* a teardown that resets the record and leaves the next job to the timer
TeardownAwaitsTick(s, cont) == Continue(resetRunningJob(s), cont)

\* endCollectIntelligencesJob after sendToSOIAndDIA, lines 783-791
Teardown(s, cont) ==
    Continue(startCollectIntelligencesJob(resetRunningJob(s), s.rj.jobId), cont)

\* a reconciliation that leaves the items as the worker left them
ReconcileNothing(h, total, dict, i, temp) == <<h, total>>

\* a reconciliation that leaves out the items without an outcome
RECURSIVE ReconcileCollectedOnly(_, _, _, _, _)
ReconcileCollectedOnly(h, total, dict, i, temp) ==
    IF i > Len(total) THEN <<h, temp>>
    ELSE LET tmp == total[i]
             got == dict[h[tmp[1]][tmp[2]].gid]
         IN  IF got = NoRef
             THEN ReconcileCollectedOnly(
                     setIntelligenceState(h, tmp, "FAILED", "unresolved"),
                     total, dict, i + 1, temp)
             ELSE ReconcileCollectedOnly(
                     IF h[got[1]][got[2]].state = ""
                     THEN setIntelligenceState(h, got, "FAILED", "") ELSE h,
                     total, dict, i + 1, Append(temp, got))

\* the reconciliation loop of endCollectIntelligencesJob, lines 742-772:
\* <<heap, temp>> after the items from position i on
RECURSIVE Reconcile(_, _, _, _, _)
Reconcile(h, total, dict, i, temp) ==
    IF i > Len(total) THEN <<h, temp>>
    ELSE LET tmp == total[i]
             got == dict[h[tmp[1]][tmp[2]].gid]
         IN  IF got = NoRef
             THEN Reconcile(setIntelligenceState(h, tmp, "FAILED", "unresolved"),
                            total, dict, i + 1, Append(temp, tmp))
             ELSE IF h[got[1]][got[2]].state = ""
                  THEN Reconcile(setIntelligenceState(h, got, "FAILED", ""),
                                 total, dict, i + 1, Append(temp, got))
                  ELSE Reconcile(h, total, dict, i + 1, Append(temp, got))

\* the routing key of an item, lines 625-637; "none" when a soi field is missing
RoutingKey(item) == item.dest

\* the bucket of key d, lines 624-645
BucketRefs(h, list, d) ==
    SelectSeq(list, LAMBDA ref : RoutingKey(h[ref[1]][ref[2]]) = d)

\* the body of a request: the items as they are when it is sent
Snapshot(h, refs) == [i \in 1..Len(refs) |-> h[refs[i][1]][refs[i][2]]]

\* the states of the items of a list
States(h, refs) == {h[refs[i][1]][refs[i][2]].state : i \in 1..Len(refs)}

\* the items sendIntelligencesToSOI is called with for a bucket, line 670: the
\* parameter of sendToSOIAndDIA (the declaration of line 678 is local to the
\* catch block), the same for every bucket
PostRefs(list, d) == list

\* a dispatcher that sends the update of a bucket without awaiting its POST
sendToSOIAndDIAUpdateFirst(s, j, cont) ==
    LET list == s.rj.totalIntelligences
        used == {d \in Dests : Len(BucketRefs(s.heap, list, d)) > 0}
    IN  IF used = {} THEN Teardown(s, cont)
        ELSE [s EXCEPT !.dispatch[j] =
                [ active |-> TRUE, cont |-> cont,
                  buckets |-> [d \in Dests |->
                     IF d \in used
                     THEN [st |-> "dia", refs |-> <<>>]
                     ELSE NoBucket] ]]

\* sendToSOIAndDIA up to its awaits, lines 616-719: every bucket's POST to its
\* target system is sent; with no bucket it returns at once
sendToSOIAndDIA(s, j, cont) ==
    LET list == s.rj.totalIntelligences
        used == {d \in Dests : Len(BucketRefs(s.heap, list, d)) > 0}
    IN  IF used = {} THEN Teardown(s, cont)
        ELSE [s EXCEPT !.dispatch[j] =
                [ active |-> TRUE, cont |-> cont,
                  buckets |-> [d \in Dests |->
                     IF d \in used
                     THEN [st |-> "soi", refs |-> BucketRefs(s.heap, list, d)]
                     ELSE NoBucket] ]]

\* endCollectIntelligencesJob, lines 722-782
endCollectIntelligencesJob(s, cont) ==
    IF \/ s.rj.jobId = 0
       \/ ~s.rj.lockJob
       \/ s.rj.endingCollectIntelligencesJob
    THEN Continue(s, cont)
    ELSE LET rec == Reconcile(s.heap, s.rj.totalIntelligences,
                              s.rj.collectedIntelligencesDict, 1, <<>>)
         IN  sendToSOIAndDIA(
                [s EXCEPT !.rj.endingCollectIntelligencesJob = TRUE,
                          !.heap = rec[1],
                          !.rj.totalIntelligences = rec[2]],
                s.rj.jobId, cont)

\* an endPollingGetIntelligences that only cancels the timer
endPollingTimerOnly(s, cont) ==
    Continue([ClearInterval(s, "loop", s.wi) EXCEPT !.wi = 0], cont)

\* endPollingGetIntelligences, lines 389-397
endPollingGetIntelligences(s, cont) ==
    endCollectIntelligencesJob([ClearInterval(s, "loop", s.wi) EXCEPT !.wi = 0], cont)

\* preconditions that leave out system.state
MayRunWhateverState(s, config) ==
    ~ \/ ~s.configs.BITSKY_BASE_URL
      \/ config.type = ""
      \/ config.globalId = ""
      \/ ToUpper(config.type) # ToUpper(ProducerType)

\* the preconditions to run, lines 293-300
MayRun(s, config) ==
    ~ \/ ~s.configs.BITSKY_BASE_URL
      \/ config.type = ""
      \/ config.globalId = ""
      \/ ToUpper(config.type) # ToUpper(ProducerType)
      \/ ToUpper(config.state) # ToUpper("active")

\* a compareProducerConfiguration that restarts on every tick
compareNothing(s, config) ==
    LET a == [s EXCEPT !.cur = config]
    IN  IF MayRun(a, config)
        THEN endPollingGetIntelligences(a, "start")
        ELSE endPollingGetIntelligences(a, "none")

\* a compareProducerConfiguration that starts the job loop for every changed
\* config
compareStartsAlways(s, config) ==
    IF \/ config.globalId # s.cur.globalId
       \/ config.version # s.cur.version
    THEN endPollingGetIntelligences([s EXCEPT !.cur = config], "start")
    ELSE s

\* compareProducerConfiguration once the config is there, lines 282-316
compareProducerConfiguration(s, config) ==
    IF \/ config.globalId # s.cur.globalId
       \/ config.version # s.cur.version
    THEN LET a == [s EXCEPT !.cur = config]
         IN  IF MayRun(a, config)
             THEN endPollingGetIntelligences(a, "start")
             ELSE endPollingGetIntelligences(a, "none")
    ELSE s

\* a resetRuntime that forgets the watcher's handle without cancelling its timer
resetRuntimeKeepWatcher(s) ==
    resetRunningJob(
        [s EXCEPT !.intervals = @ \ {<<"loop", s.wi>>},
                  !.ran = 0, !.cur = UndefinedConfig, !.wi = 0, !.wp = 0])

\* resetRuntime, lines 803-812
resetRuntime(s) ==
    resetRunningJob(
        [s EXCEPT !.intervals = @ \ {<<"loop", s.wi>>, <<"watch", s.wp>>},
                  !.ran = 0, !.cur = UndefinedConfig, !.wi = 0, !.wp = 0])

\* ------------------------------------------------------------- next state
\* the variables take the fields of s; a handler that needs more invocations
\* than MaxJobs (s.ok false) is outside the bounds
Becomes(s0) ==
    LET s == Forget(s0)
    IN  /\ s0.ok
        /\ ranJobNumber' = s.ran
        /\ currentProducerConfig' = s.cur
        /\ producerError' = s.err
        /\ watchIntelligencesIntervalHandler' = s.wi
        /\ watchProducerIntervalHandler' = s.wp
        /\ intervals' = s.intervals
        /\ runningJob' = s.rj
        /\ configs' = s.configs
        /\ configFetches' = s.fetches
        /\ pc' = s.pc
        /\ timeouts' = s.timeouts
        /\ heap' = s.heap
        /\ dispatch' = s.dispatch
        /\ fired' = s.fired
        /\ calls' = s.calls
        /\ served' = s.served
        /\ UNCHANGED <<polling, grouping>>

ConfigsSet ==
    { [BITSKY_BASE_URL |-> TRUE, GLOBAL_ID |-> TRUE],
      [BITSKY_BASE_URL |-> FALSE, GLOBAL_ID |-> TRUE],
      [BITSKY_BASE_URL |-> TRUE, GLOBAL_ID |-> FALSE] }

\* the constructor, lines 72-108
ProducerInit ==
    /\ ranJobNumber = 0
    /\ currentProducerConfig = UndefinedConfig
    /\ producerError = NoError
    /\ watchIntelligencesIntervalHandler = 0
    /\ watchProducerIntervalHandler = 0
    /\ intervals = {}
    /\ runningJob = IdleJob
    /\ configs \in ConfigsSet
    /\ configFetches = 0
    /\ pc = [j \in Slots |-> "free"]
    /\ timeouts = {}
    /\ heap = [j \in Slots |-> <<>>]
    /\ dispatch = [j \in Slots |-> NoDispatch]
    /\ fired = {}
    /\ calls = 0
    /\ served = 0

\* a remote config without pollingInterval
Absent == -1

\* no timer armed yet, no list grouped yet
NoPolling == [remote |-> Absent, default |-> 1, value |-> 0]
NoGrouping == [items |-> <<>>, sois |-> <<>>, done |-> FALSE]

Init ==
    /\ ProducerInit
    /\ polling = NoPolling
    /\ grouping = NoGrouping

\* ------------------------------------------------------------- facade
\* start(), lines 840-855
Start ==
    LET r == resetRuntime(State)
    IN  /\ calls < MaxCalls
        /\ Becomes([r EXCEPT !.wp = NewInterval(r, "watch"),
                             !.intervals = @ \cup {<<"watch", NewInterval(r, "watch")>>},
                             !.calls = @ + 1])

\* stop(), lines 860-869
Stop ==
    /\ calls < MaxCalls
    /\ Becomes([resetRuntime(State) EXCEPT !.calls = @ + 1])

\* setConfigs(configs), lines 169-173, or a change of the environment
SetConfigs ==
    /\ calls < MaxCalls
    /\ \E c \in ConfigsSet :
          c # configs /\ Becomes([State EXCEPT !.configs = c, !.calls = @ + 1])

\* ------------------------------------------------------------- config watcher
\* a tick of the watcher timer, lines 851-854: compareProducerConfiguration up
\* to its await of getProducerAPI; without BITSKY_BASE_URL or GLOBAL_ID
\* getProducerConfiguration returns undefined at once, lines 189-197
WatcherTick ==
    /\ \E t \in intervals : t[1] = "watch"
    /\ IF ~configs.BITSKY_BASE_URL \/ ~configs.GLOBAL_ID
       THEN Becomes(compareProducerConfiguration(
                [State EXCEPT !.err = [status |-> 400, message |-> "required"]],
                UndefinedConfig))
       ELSE /\ configFetches < MaxWatch
            /\ Becomes([State EXCEPT !.fetches = @ + 1])

\* getProducerAPI returns config c, lines 210-213, 262-316
GotConfig(c) ==
    /\ configFetches > 0
    /\ Becomes(compareProducerConfiguration(
           [State EXCEPT !.fetches = @ - 1, !.err = NoError], c))

ConfigResponse == \E c \in RemoteConfigs : GotConfig(c)

\* getProducerAPI returns a config of OtherConfigs
OtherConfigResponse == \E c \in OtherConfigs : GotConfig(c)

\* the classification of an error with an HTTP status, lines 223-245
Classify(status) ==
    [ status |-> status,
      message |-> CASE status = 404 -> "not registered"
                    [] status = 401 -> "bad credentials"
                    [] status >= 500 -> "internal server error"
                    [] status = 403 -> "already bound"
                    [] status >= 400 -> "bad request"
                    [] OTHER -> "internal server error" ]

\* getProducerAPI throws, lines 215-250: an error without a status writes the
\* message into the record that is there, and throws if there is none (null),
\* which ends the tick in the catch of line 317
ConfigError ==
    /\ configFetches > 0
    /\ \E e \in FetchErrors :
          LET s == [State EXCEPT !.fetches = @ - 1]
          IN  IF e # 0
              THEN Becomes(compareProducerConfiguration(
                       [s EXCEPT !.err = Classify(e)], UndefinedConfig))
              ELSE IF s.err = NoError
                   THEN Becomes(s)
                   ELSE Becomes(compareProducerConfiguration(
                            [s EXCEPT !.err.message = "internal server error"],
                            UndefinedConfig))

\* ------------------------------------------------------------- job loop
\* a tick of the job-loop timer, lines 353-376
JobLoopTick ==
    /\ \E t \in intervals : t[1] = "loop"
    /\ IF runningJob.jobId = 0 /\ ~runningJob.lockJob
       THEN Becomes(startCollectIntelligencesJob(State, 0))
       ELSE Becomes(State)

\* ------------------------------------------------------------- job runner
\* a catch that does not end the job
catchWithoutEnd(s, j) ==
    [ClearJobTimeout(s) EXCEPT !.rj.jobTimeoutHandler = 0, !.pc[j] = "free"]

\* the catch of startCollectIntelligencesJob, lines 600-610
catchStartJob(s, j) ==
    endCollectIntelligencesJob(
        [ClearJobTimeout(s) EXCEPT !.rj.jobTimeoutHandler = 0, !.pc[j] = "free"],
        "none")

Refs(j, n) == [i \in 1..n |-> <<j, i>>]

\* getIntelligencesAPI returns a batch, lines 478-511: up to the await of the
\* worker. An empty batch leaves the record as it is, a batch with items
\* counts the job and becomes totalIntelligences
gotIntelligences(s, j, b) ==
    IF b = <<>>
    THEN [s EXCEPT !.pc[j] = "idle"]
    ELSE [s EXCEPT !.ran = @ + 1,
                   !.heap[j] = b,
                   !.rj.totalIntelligences = Refs(j, Len(b)),
                   !.pc[j] = "work"]

FetchResponse(j) ==
    /\ pc[j] = "fetch"
    /\ \E b \in Batches :
          /\ b # <<>> => served < MaxServed
          /\ Becomes([gotIntelligences(State, j, b) EXCEPT
                         !.served = IF b # <<>> THEN @ + 1 ELSE @])

\* getIntelligencesAPI returns a batch of several items, lines 478-511
RichFetchResponse(j) ==
    /\ pc[j] = "fetch"
    /\ served < MaxServed
    /\ \E b \in RichBatches :
          Becomes([gotIntelligences(State, j, b) EXCEPT !.served = @ + 1])

\* the batch the control plane serves after k batches with items: no
\* intelligence is served twice
FreshBatch(k) == IF k = 0 THEN <<Item("i1", "a")>> ELSE <<Item("i2", "a")>>

\* getIntelligencesAPI returns the next fresh batch, lines 478-511
FreshFetchResponse(j) ==
    /\ pc[j] = "fetch"
    /\ served < MaxServed + 1
    /\ Becomes([gotIntelligences(State, j, FreshBatch(served)) EXCEPT !.served = @ + 1])

\* getIntelligencesAPI throws or returns no list (line 478 throws): the catch
\* of line 600
FetchError(j) ==
    /\ pc[j] = "fetch"
    /\ Becomes(catchStartJob(State, j))

\* getIntelligencesAPI returns an empty batch to invocation j, lines 478-493
EmptyBatchReturned(j) ==
    /\ pc[j] = "fetch"
    /\ Becomes(gotIntelligences(State, j, <<>>))

\* a worker return that forgets to release the slot after an empty batch
workerReturnsKeepsLock(s, j) ==
    IF s.pc[j] = "idle"
    THEN [s EXCEPT !.pc[j] = "free"]
    ELSE [ClearJobTimeout(s) EXCEPT
             !.rj.jobTimeoutHandler = j,
             !.timeouts = @ \cup {j},
             !.pc[j] = "collect"]

\* the worker returns, lines 494-495 after an empty batch, lines 513-543 after
\* a batch with items: the timeout is armed and the outcomes awaited
workerReturns(s, j) ==
    IF s.pc[j] = "idle"
    THEN resetRunningJob([s EXCEPT !.pc[j] = "free"])
    ELSE [ClearJobTimeout(s) EXCEPT
             !.rj.jobTimeoutHandler = j,
             !.timeouts = @ \cup {j},
             !.pc[j] = "collect"]

WorkerReturns(j) ==
    /\ pc[j] \in {"idle", "work"}
    /\ Becomes(workerReturns(State, j))

\* the worker throws, lines 488-493 or 506-511: the catch of line 600
WorkerThrows(j) ==
    /\ pc[j] \in {"idle", "work"}
    /\ Becomes(catchStartJob(State, j))

\* the outcome loop, lines 556-585: out[i] is the outcome of item i, "ok"
\* fulfilled with the item, "rej" rejected with the item, "skip" without globalId
RECURSIVE Collect(_, _, _, _)
Collect(s, j, out, i) ==
    IF i > Len(out) THEN s
    ELSE IF out[i] = "skip" THEN Collect(s, j, out, i + 1)
    ELSE Collect(
            [s EXCEPT !.heap = setIntelligenceState(
                                   @, <<j, i>>,
                                   IF out[i] = "ok" THEN "FINISHED" ELSE "FAILED", ""),
                      !.rj.collectedIntelligencesDict[s.heap[j][i].gid] = <<j, i>>,
                      !.rj.collectedIntelligencesNumber = @ + 1],
            j, out, i + 1)

\* the handler of Promise.allSettled(promises), lines 544-587
allSettled(s, j, out) ==
    IF s.rj.jobTimeout THEN s
    ELSE endCollectIntelligencesJob(
            Collect([ClearJobTimeout(s) EXCEPT !.rj.jobTimeoutHandler = 0], j, out, 1),
            "none")

\* the outcomes of invocation j settle
Settle(j) ==
    /\ pc[j] = "collect"
    /\ \E out \in [1..Len(heap[j]) -> {"ok", "rej", "skip"}] :
          Becomes(allSettled([State EXCEPT !.pc[j] = "free", !.fired = @ \ {j}], j, out))

\* the outcomes a worker may give for a batch of n items
Outcomes(n) == [1..n -> {"ok", "rej", "skip"}]

\* the outcomes of invocation j settle as out
Settled(j, out) ==
    /\ pc[j] = "collect"
    /\ Becomes(allSettled([State EXCEPT !.pc[j] = "free", !.fired = @ \ {j}], j, out))

\* the outcomes of invocation j never settle: its handler will never run
NeverSettle(j) ==
    /\ pc[j] = "collect"
    /\ Becomes([State EXCEPT !.pc[j] = "free", !.fired = @ \ {j}])

\* a timeout handler that marks the items FAILED
RECURSIVE MarkTimeoutAsFailed(_, _)
MarkTimeoutAsFailed(s, i) ==
    IF i > Len(s.rj.totalIntelligences) THEN s
    ELSE LET ref == s.rj.totalIntelligences[i]
         IN  MarkTimeoutAsFailed(
                [s EXCEPT !.heap = setIntelligenceState(
                                       @, ref, "FAILED", "collect intelligences timeout"),
                          !.rj.collectedIntelligencesDict[s.heap[ref[1]][ref[2]].gid] = ref,
                          !.rj.collectedIntelligencesNumber = @ + 1],
                i + 1)

\* the loop of the timeout handler, lines 526-537
RECURSIVE MarkTimeout(_, _)
MarkTimeout(s, i) ==
    IF i > Len(s.rj.totalIntelligences) THEN s
    ELSE LET ref == s.rj.totalIntelligences[i]
         IN  MarkTimeout(
                [s EXCEPT !.heap = setIntelligenceState(
                                       @, ref, "TIMEOUT", "collect intelligences timeout"),
                          !.rj.collectedIntelligencesDict[s.heap[ref[1]][ref[2]].gid] = ref,
                          !.rj.collectedIntelligencesNumber = @ + 1],
                i + 1)

\* the timeout handler, lines 514-538
jobTimeoutFires(s) ==
    endCollectIntelligencesJob(
        MarkTimeout([s EXCEPT !.rj.jobTimeout = TRUE, !.rj.jobTimeoutHandler = 0], 1),
        "none")

\* the timeout armed by invocation j fires
Timeout(j) ==
    /\ j \in timeouts
    /\ Becomes(jobTimeoutFires(
           [State EXCEPT !.timeouts = @ \ {j},
                         !.fired = IF pc[j] = "collect" THEN @ \cup {j} ELSE @]))

\* ------------------------------------------------------------- dispatcher
\* the rewrite after a failed POST, lines 679-686
RECURSIVE MarkFailed(_, _, _)
MarkFailed(h, refs, i) ==
    IF i > Len(refs) THEN h
    ELSE MarkFailed([h EXCEPT ![refs[i][1]][refs[i][2]].state = "FAILED",
                              ![refs[i][1]][refs[i][2]].reason = "soi"],
                    refs, i + 1)

\* sendIntelligencesToSOI returns or throws, lines 665-695: the update of the
\* bucket is sent to the control plane
soiReturns(s, j, d, failed) ==
    LET b == s.dispatch[j].buckets[d]
        h == IF failed THEN MarkFailed(s.heap, b.refs, 1) ELSE s.heap
    IN  [s EXCEPT !.heap = h,
                  !.dispatch[j].buckets[d] =
                      [st |-> "dia", refs |-> <<>>]]

\* the update sent for bucket d when its POST returns, lines 689-695
UpdateBody(s, j, d, failed) ==
    Snapshot(soiReturns(s, j, d, failed).heap, s.dispatch[j].buckets[d].refs)

SoiReturned(j, d, failed) ==
    /\ dispatch[j].buckets[d].st = "soi"
    /\ Becomes(soiReturns(State, j, d, failed))

SoiResponse(j, d) == \E failed \in BOOLEAN : SoiReturned(j, d, failed)

\* a dispatcher that returns when the first bucket is done
diaReturnsFirst(s, j, d) ==
    LET a == [s EXCEPT !.dispatch[j].buckets[d] = NoBucket]
    IN  IF \E e \in Dests : a.dispatch[j].buckets[e].st \in {"soi", "dia"}
        THEN Teardown(a, s.dispatch[j].cont)
        ELSE Teardown([a EXCEPT !.dispatch[j] = NoDispatch], s.dispatch[j].cont)

\* updateIntelligencesAPI returns or throws, lines 689-719: the bucket is done,
\* and after the last bucket endCollectIntelligencesJob goes on
diaReturns(s, j, d) ==
    LET a == [s EXCEPT !.dispatch[j].buckets[d] = NoBucket]
    IN  IF \E e \in Dests : a.dispatch[j].buckets[e].st \in {"soi", "dia"}
        THEN a
        ELSE Teardown([a EXCEPT !.dispatch[j] = NoDispatch], s.dispatch[j].cont)

DiaResponse(j, d) ==
    /\ dispatch[j].buckets[d].st = "dia"
    /\ Becomes(diaReturns(State, j, d))

\* sendIntelligencesToSOI throws an error that has no toJSON method (a
\* TypeError, say), lines 674-687 and 705-713: the rewrite throws at line 684
\* for the first item of the bucket, after its state was written, and the
\* catch of line 705 resolves the bucket: no update is sent for it
soiThrowsPlain(s, j, d) ==
    LET first == s.dispatch[j].buckets[d].refs[1]
    IN  diaReturns([s EXCEPT !.heap[first[1]][first[2]].state = "FAILED"], j, d)

SoiThrowsPlain(j, d) ==
    /\ dispatch[j].buckets[d].st = "soi"
    /\ Becomes(soiThrowsPlain(State, j, d))

\* ------------------------------------------------------------- specification
Next ==
    \/ Start
    \/ Stop
    \/ SetConfigs
    \/ WatcherTick
    \/ ConfigResponse
    \/ ConfigError
    \/ JobLoopTick
    \/ \E j \in Slots : FetchResponse(j)
    \/ \E j \in Slots : FetchError(j)
    \/ \E j \in Slots : WorkerReturns(j)
    \/ \E j \in Slots : WorkerThrows(j)
    \/ \E j \in Slots : Settle(j)
    \/ \E j \in Slots : NeverSettle(j)
    \/ \E j \in Slots : Timeout(j)
    \/ \E j \in Slots, d \in Dests : SoiResponse(j, d)
    \/ \E j \in Slots, d \in Dests : DiaResponse(j, d)
    \/ \E j \in Slots, d \in Dests : SoiThrowsPlain(j, d)

Spec == Init /\ [][Next]_vars

\* the producer started once and served batches of several items
DispatchNext ==
    \/ calls = 0 /\ Start
    \/ WatcherTick
    \/ ConfigResponse
    \/ ConfigError
    \/ JobLoopTick
    \/ \E j \in Slots : RichFetchResponse(j)
    \/ \E j \in Slots : FetchError(j)
    \/ \E j \in Slots : WorkerReturns(j)
    \/ \E j \in Slots : WorkerThrows(j)
    \/ \E j \in Slots : Settle(j)
    \/ \E j \in Slots : NeverSettle(j)
    \/ \E j \in Slots : Timeout(j)
    \/ \E j \in Slots, d \in Dests : SoiResponse(j, d)
    \/ \E j \in Slots, d \in Dests : DiaResponse(j, d)
    \/ \E j \in Slots, d \in Dests : SoiThrowsPlain(j, d)

DispatchSpec == Init /\ [][DispatchNext]_vars

\* the producer started once, with the control plane answering configs of
\* any type
WatchNext ==
    \/ calls = 0 /\ Start
    \/ SetConfigs
    \/ WatcherTick
    \/ ConfigResponse
    \/ OtherConfigResponse
    \/ ConfigError
    \/ JobLoopTick
    \/ \E j \in Slots : FetchResponse(j)
    \/ \E j \in Slots : FetchError(j)
    \/ \E j \in Slots : WorkerReturns(j)
    \/ \E j \in Slots : WorkerThrows(j)
    \/ \E j \in Slots : Settle(j)
    \/ \E j \in Slots : NeverSettle(j)
    \/ \E j \in Slots : Timeout(j)
    \/ \E j \in Slots, d \in Dests : SoiResponse(j, d)
    \/ \E j \in Slots, d \in Dests : DiaResponse(j, d)
    \/ \E j \in Slots, d \in Dests : SoiThrowsPlain(j, d)

WatchSpec == Init /\ [][WatchNext]_vars

\* the producer started once and served one batch more, every intelligence
\* once
RepeatNext ==
    \/ calls = 0 /\ Start
    \/ WatcherTick
    \/ ConfigResponse
    \/ JobLoopTick
    \/ \E j \in Slots : FreshFetchResponse(j)
    \/ \E j \in Slots : WorkerReturns(j)
    \/ \E j \in Slots : Settle(j)
    \/ \E j \in Slots : Timeout(j)
    \/ \E j \in Slots, d \in Dests : SoiResponse(j, d)
    \/ \E j \in Slots, d \in Dests : DiaResponse(j, d)

RepeatSpec == Init /\ [][RepeatNext]_vars

\* The fairness the event loop and the claim's proviso give: no call stays
\* pending for ever, no timeout stays armed for ever. Each condition is on
\* the step that ends the wait, told by the variable the wait is recorded in.
PcValues == {"free", "fetch", "idle", "work", "collect"}

\* the items a bucket may hold
BucketLists ==
    {<<>>} \cup {<<r>> : r \in Slots \X (1..MaxBatch)}
           \cup {<<r, q>> : r \in Slots \X (1..MaxBatch), q \in Slots \X (1..MaxBatch)}

DispatchValues ==
    [Slots -> [ active : BOOLEAN, cont : {"none", "start"},
                buckets : [Dests -> [ st : {"none", "soi", "dia"},
                                      refs : BucketLists ]] ]]

\* getIntelligencesAPI returns or throws to invocation j, lines 472-478
FetchEnds(j) ==
    /\ pc[j] = "fetch"
    /\ pc' \in [Slots -> PcValues]
    /\ pc'[j] # "fetch"

\* the worker returns or throws to invocation j, lines 488 and 506
WorkerEnds(j) ==
    /\ pc[j] \in {"idle", "work"}
    /\ pc' \in [Slots -> PcValues]
    /\ pc'[j] \notin {"idle", "work"}

\* the outcomes invocation j awaits settle, or are given up, line 543
OutcomesEnd(j) ==
    /\ pc[j] = "collect"
    /\ pc' \in [Slots -> PcValues]
    /\ pc'[j] # "collect"

\* the timeout invocation j armed fires or is cancelled, lines 513-541
TimeoutEnds(j) ==
    /\ j \in timeouts
    /\ timeouts' \in SUBSET Slots
    /\ j \notin timeouts'

\* the request bucket d of dispatch j waits for in state st is answered,
\* lines 666 and 690
RequestEnds(j, d, st) ==
    /\ dispatch[j].buckets[d].st = st
    /\ dispatch' \in DispatchValues
    /\ dispatch'[j].buckets[d].st # st

Fairness ==
    /\ \A j \in Slots : WF_pc(FetchEnds(j))
    /\ \A j \in Slots : WF_pc(WorkerEnds(j))
    /\ \A j \in Slots : WF_pc(OutcomesEnd(j))
    /\ \A j \in Slots : WF_timeouts(TimeoutEnds(j))
    /\ \A j \in Slots, d \in Dests : WF_dispatch(RequestEnds(j, d, "soi"))
    /\ \A j \in Slots, d \in Dests : WF_dispatch(RequestEnds(j, d, "dia"))

FairSpec == Spec /\ Fairness

\* ------------------------------------------------------------- claims
Terminal == {"FINISHED", "FAILED", "TIMEOUT"}

\* invocation j is between initRunningJob and the end of its job: its fetch or
\* its worker call is pending, its outcomes are awaited and its timeout has
\* not fired, or its dispatch is in flight
InProgress(j) ==
    \/ pc[j] \in {"fetch", "idle", "work"}
    \/ pc[j] = "collect" /\ j \notin fired
    \/ dispatch[j].active

\* C1: with start() called once and then only timer ticks, worker completions,
\* timeouts and HTTP responses, at most one job is in progress at any instant:
\* no two invocations are both between their acquisition and their end
C1_SingleJob ==
    calls <= 1 => \A j, k \in Slots : InProgress(j) /\ InProgress(k) => j = k

\* C2: outcomes that settle after the timeout of their job fired are ignored:
\* the settling step leaves the running-job record, the armed timeouts and
\* the dispatches as they are
C2_LateOutcomesIgnored ==
    [][\A j \in Slots :
          j \in fired /\ Settle(j)
          => /\ runningJob' = runningJob
             /\ timeouts' = timeouts
             /\ dispatch' = dispatch]_vars

\* every HTTP call and every worker call or outcome has resolved
Resolved ==
    /\ configFetches = 0
    /\ \A j \in Slots : pc[j] = "free" /\ ~dispatch[j].active

\* C4: after stop() and no start() since (the watcher timer handle is unset),
\* once everything outstanding has resolved no timer is armed and no job is
\* in progress
C4_StoppedIsQuiet ==
    calls > 0 /\ watchProducerIntervalHandler = 0 /\ Resolved
    => /\ intervals = {}
       /\ timeouts = {}
       /\ runningJob.jobId = 0
       /\ ~runningJob.lockJob

\* C9: with start() called once, a step that acquires a job (a new jobId in
\* the record) ends in a state whose adopted config permits job execution
C9_AcquireOnlyWhenPermitted ==
    [][calls = 1 /\ runningJob'.jobId # 0 /\ runningJob'.jobId # runningJob.jobId
       => /\ currentProducerConfig'.defined
          /\ configs'.BITSKY_BASE_URL
          /\ ToUpper(currentProducerConfig'.type) = ToUpper(ProducerType)
          /\ ToUpper(currentProducerConfig'.state) = "ACTIVE"]_vars

\* a watcher tick that adopts the config it fetched (or the absence of one)
Adopts ==
    /\ WatcherTick \/ ConfigResponse \/ ConfigError
    /\ currentProducerConfig' # currentProducerConfig

\* the record holds job j, and its terminal phase has not begun
Active(j) ==
    /\ runningJob.jobId = j
    /\ runningJob.lockJob
    /\ ~runningJob.endingCollectIntelligencesJob

\* C3 (as amended): a watcher tick that adopts a changed config ends the
\* active job: after the tick the record no longer holds the job, or the job
\* is ending, reconciled (every item in a terminal state) and being dispatched
C3_WatcherEndsActiveJob ==
    [][\A j \in Slots :
          Adopts /\ Active(j)
          => \/ runningJob'.jobId # j
             \/ /\ runningJob'.endingCollectIntelligencesJob
                /\ dispatch'[j].active
                /\ States(heap', runningJob'.totalIntelligences) \subseteq Terminal]_vars

\* C3 (as stated): a watcher tick that adopts a config of another version
\* while a job is executing neither reconciles, dispatches nor resets it
C3_WatcherDoesNotPreempt ==
    [][\A j \in Slots :
          /\ Adopts /\ Active(j)
          /\ pc[j] \in {"work", "collect"}
          /\ currentProducerConfig.defined /\ currentProducerConfig'.defined
          /\ currentProducerConfig'.version # currentProducerConfig.version
          => /\ runningJob' = runningJob
             /\ dispatch' = dispatch
             /\ heap' = heap]_vars

\* a job whose outcomes are awaited and whose timeout is armed is ending
\* though neither has happened: the watcher ended it, after the one start()
C3_Witness ==
    \E j \in Slots :
       /\ calls = 1
       /\ currentProducerConfig.version = "v2"
       /\ runningJob.jobId = j
       /\ runningJob.endingCollectIntelligencesJob
       /\ ~runningJob.jobTimeout
       /\ pc[j] = "collect" /\ j \in timeouts
       /\ dispatch[j].active
       /\ States(heap, runningJob.totalIntelligences) = {"FAILED"}

\* the items of the requests a dispatch still has to send
Dispatched(j) ==
    UNION {{dispatch[j].buckets[d].refs[i] : i \in 1..Len(dispatch[j].buckets[d].refs)}
           : d \in Dests}

\* C6: the step that hands a job's batch to the dispatcher leaves every item
\* of the batch in a terminal state, and every item a dispatch has yet to
\* send in an update is in a terminal state at every later point
C6_TerminalWhenDispatched ==
    /\ [](\A j \in Slots : \A ref \in Dispatched(j) :
             heap[ref[1]][ref[2]].state \in Terminal)
    /\ [][\A j \in Slots :
             /\ runningJob'.jobId = j
             /\ runningJob'.endingCollectIntelligencesJob
             /\ ~(runningJob.jobId = j /\ runningJob.endingCollectIntelligencesJob)
             => States(heap', runningJob'.totalIntelligences) \subseteq Terminal]_vars

\* a job being dispatched of which reconciliation marked an item the worker
\* gave no outcome for
C6_Witness ==
    \E j \in Slots : \E ref \in Dispatched(j) :
       /\ runningJob.jobId = j
       /\ runningJob.endingCollectIntelligencesJob
       /\ heap[ref[1]][ref[2]].state = "FAILED"
       /\ heap[ref[1]][ref[2]].reason = "unresolved"

\* C7 (as amended): when the timeout handler ends the job, every item it
\* hands to the dispatcher is TIMEOUT; and the update sent for a bucket whose
\* POST to the target system failed carries FAILED for every item, a job
\* that timed out included
C7_TimeoutReconciled ==
    [][/\ \A j, k \in Slots :
             Timeout(j) /\ Active(k)
             => \A d \in Dests :
                   States(heap', dispatch'[k].buckets[d].refs) \subseteq {"TIMEOUT"}
       /\ \A j \in Slots, d \in Dests :
             SoiReturned(j, d, TRUE)
             => \A i \in DOMAIN UpdateBody(State, j, d, TRUE) :
                   UpdateBody(State, j, d, TRUE)[i].state = "FAILED"]_vars

\* C7 (as stated): the update sent for a bucket of a job whose jobTimeout is
\* set carries TIMEOUT for every item
C7_TimeoutIsFinal ==
    [][\A j \in Slots, d \in Dests, failed \in BOOLEAN :
          /\ runningJob.jobId = j /\ runningJob.jobTimeout
          /\ SoiReturned(j, d, failed)
          => \A i \in DOMAIN UpdateBody(State, j, d, failed) :
                UpdateBody(State, j, d, failed)[i].state = "TIMEOUT"]_vars

\* a job that timed out whose update is in flight with an item rewritten to
\* FAILED by the failed POST
C7_Witness ==
    \E j \in Slots, d \in Dests :
       /\ runningJob.jobId = j /\ runningJob.jobTimeout
       /\ dispatch[j].buckets[d].st = "dia"
       /\ \E i \in 1..Len(runningJob.totalIntelligences) :
             LET ref == runningJob.totalIntelligences[i]
             IN  /\ heap[ref[1]][ref[2]].state = "FAILED"
                 /\ heap[ref[1]][ref[2]].reason = "soi"

\* the config c has the globalId and the version of the adopted snapshot
SameIds(c) ==
    /\ c.globalId = currentProducerConfig.globalId
    /\ c.version = currentProducerConfig.version

LoopTimers(set) == {t \in set : t[1] = "loop"}

\* C8 (as amended): a watcher tick that fetches a config that is not ACTIVE
\* stops the job loop if its globalId or version differs from the adopted
\* snapshot (no job-loop timer is armed after it), and changes no timer if
\* they are the same
C8_InactiveStopsLoopIfChanged ==
    [][\A c \in RemoteConfigs :
          GotConfig(c) /\ ToUpper(c.state) # "ACTIVE"
          => IF SameIds(c)
             THEN /\ intervals' = intervals
                  /\ watchIntelligencesIntervalHandler' = watchIntelligencesIntervalHandler
             ELSE /\ LoopTimers(intervals') = {}
                  /\ watchIntelligencesIntervalHandler' = 0]_vars

\* C8 (as stated): after a watcher tick that fetches a config that is not
\* ACTIVE no job-loop timer is armed
C8_InactiveStopsLoop ==
    [][\A c \in RemoteConfigs :
          GotConfig(c) /\ ToUpper(c.state) # "ACTIVE"
          => LoopTimers(intervals') = {}]_vars

\* the watcher adopted a config that is not ACTIVE after a job had run, and
\* no job-loop timer is armed
C8_Witness ==
    /\ currentProducerConfig.defined
    /\ currentProducerConfig.state = "INACTIVE"
    /\ ranJobNumber > 0
    /\ calls = 1
    /\ configFetches = 0
    /\ LoopTimers(intervals) = {}

\* C10: a watcher tick that fetches a config with the globalId and version
\* of the adopted snapshot, the one the tick before it left, restarts
\* nothing: the job-loop timer and the running-job record stay as they are
C10_UnchangedConfigNoRestart ==
    [][\A c \in RemoteConfigs :
          GotConfig(c) /\ SameIds(c)
          => /\ intervals' = intervals
             /\ watchIntelligencesIntervalHandler' = watchIntelligencesIntervalHandler
             /\ runningJob' = runningJob]_vars

\* a tick is fetching while the adopted snapshot is one the control plane
\* may return again, the job loop is armed and a job is executing
C10_Witness ==
    /\ configFetches > 0
    /\ currentProducerConfig \in RemoteConfigs
    /\ LoopTimers(intervals) # {}
    /\ \E j \in Slots : Active(j) /\ pc[j] = "collect"

\* the record holds job j: the slot is taken by it
Holds(j) == runningJob.lockJob /\ runningJob.jobId = j

\* C5: under FairSpec, a job that has acquired the slot releases it: the
\* record eventually no longer holds that job
C5_LockReleased == \A j \in Slots : Holds(j) ~> ~Holds(j)

\* a job with items has run and released the slot, and nothing is pending
C5_Witness ==
    /\ ranJobNumber > 0
    /\ runningJob.jobId = 0 /\ ~runningJob.lockJob
    /\ Resolved
    /\ timeouts = {}

\* the state start() leaves: the watcher timer armed and nothing else, no
\* adopted config, the record idle
Started ==
    /\ watchProducerIntervalHandler # 0
    /\ intervals = {<<"watch", watchProducerIntervalHandler>>}
    /\ watchIntelligencesIntervalHandler = 0
    /\ timeouts = {}
    /\ runningJob = IdleJob
    /\ currentProducerConfig = UndefinedConfig
    /\ ranJobNumber = 0

\* the state stop() leaves: no timer armed, no adopted config, the record idle
Stopped ==
    /\ watchProducerIntervalHandler = 0
    /\ intervals = {}
    /\ watchIntelligencesIntervalHandler = 0
    /\ timeouts = {}
    /\ runningJob = IdleJob
    /\ currentProducerConfig = UndefinedConfig
    /\ ranJobNumber = 0

\* the step changes nothing of the producer (calls only counts the call)
SameProducerState ==
    UNCHANGED << ranJobNumber, currentProducerConfig, producerError,
                 watchIntelligencesIntervalHandler, watchProducerIntervalHandler,
                 intervals, runningJob, configs, configFetches, pc, timeouts, heap,
                 dispatch, fired, served >>

\* C11: start() and stop() are idempotent: start() leaves exactly the watcher
\* timer armed, no job-loop timer, an idle record and no adopted config, and
\* called in such a state it changes nothing; stop() leaves no timer armed
\* and an idle record, and called in such a state it changes nothing
C11_StartStopIdempotent ==
    [][/\ Start => Started'
       /\ Start /\ Started => SameProducerState
       /\ Stop => Stopped'
       /\ Stop /\ Stopped => SameProducerState]_vars

\* start() or stop() has been called twice, and the state is the one a single
\* start() leaves, a fetch of the watcher being in flight or not
C11_Witness ==
    /\ calls = 2
    /\ Started
    /\ \A j \in Slots : pc[j] = "free"

\* the step hands the batch of job j to the dispatcher
HandsOver(j) == ~dispatch[j].active /\ dispatch'[j].active

\* the buckets whose POST dispatch j has in flight
Posting(disp) == {d \in Dests : disp.buckets[d].st = "soi"}

\* C12: in a dispatch over a batch whose items target several destinations,
\* the POST made to each target system carries exactly the items of that
\* destination's bucket
C12_PostCarriesBucket ==
    [][\A j \in Slots :
          HandsOver(j) /\ Cardinality(Posting(dispatch'[j])) > 1
          => \A d \in Posting(dispatch'[j]) :
                PostRefs(runningJob'.totalIntelligences, d)
                   = dispatch'[j].buckets[d].refs]_vars

\* C13: if the POST of a bucket fails, whatever the error, the update of the
\* control plane for that bucket is still made, and it carries every item of
\* the bucket with state FAILED and the serialized reason
C13_FailedPostRewritten ==
    [][\A j \in Slots, d \in Dests :
          /\ SoiReturned(j, d, TRUE) \/ SoiThrowsPlain(j, d)
              => dispatch'[j].buckets[d].st = "dia"
          /\ SoiReturned(j, d, TRUE)
              => \A i \in DOMAIN UpdateBody(State, j, d, TRUE) :
                    /\ UpdateBody(State, j, d, TRUE)[i].state = "FAILED"
                    /\ UpdateBody(State, j, d, TRUE)[i].reason = "soi"]_vars

\* C14: when the worker completes before the timeout, each item of the batch
\* is reconciled by its outcome: fulfilled with the item gives FINISHED,
\* rejected with the item gives FAILED with a failure reason recorded, no
\* outcome carrying its globalId gives FAILED with the "timeout or not
\* resolved" reason (observed on the batches handed to the dispatcher)
C14_ReconciledByOutcome ==
    [][\A j \in Slots : \A out \in Outcomes(Len(heap[j])) :
          Settled(j, out) /\ Active(j) /\ ~runningJob.jobTimeout /\ dispatch'[j].active
          => \A i \in 1..Len(out) :
                /\ out[i] = "ok" => heap'[j][i].state = "FINISHED"
                /\ out[i] = "rej" => /\ heap'[j][i].state = "FAILED"
                                     /\ heap'[j][i].reason # ""
                /\ out[i] = "skip" => /\ heap'[j][i].state = "FAILED"
                                      /\ heap'[j][i].reason = "unresolved"]_vars

\* the armed watcher timers
WatchTimers(set) == {t \in set : t[1] = "watch"}

\* the tick finds BITSKY_BASE_URL or GLOBAL_ID missing, lines 189-197
MissingConfigTick ==
    WatcherTick /\ (~configs.BITSKY_BASE_URL \/ ~configs.GLOBAL_ID)

\* C15: after every failed config fetch of the watcher producerError() is a
\* record classifying that failure and not an earlier one (status 400 for a
\* missing BITSKY_BASE_URL or GLOBAL_ID, "internal server error" for a 5xx
\* and for an error without HTTP status), and the watcher timer stays armed
C15_FailureClassified ==
    [][/\ MissingConfigTick
           => producerError' = [status |-> 400, message |-> "required"]
       /\ ConfigError
           => producerError' \in {Classify(e) : e \in FetchErrors}
       /\ MissingConfigTick \/ ConfigError
           => WatchTimers(intervals') = WatchTimers(intervals)]_vars

\* C16: if stop() was called while the getIntelligences request of a job is
\* in flight (the watcher handle is unset), the response is discarded when it
\* arrives: the worker is not invoked, ranJobNumber is not incremented, no
\* timeout is armed afterwards and the record stays zeroed
C16_ResponseAfterStopDiscarded ==
    [][\A j \in Slots :
          /\ FetchResponse(j)
          /\ watchProducerIntervalHandler = 0
          /\ runningJob = IdleJob
          => /\ pc'[j] = "free"
             /\ ranJobNumber' = ranJobNumber
             /\ timeouts' = timeouts
             /\ runningJob' = IdleJob]_vars

\* the conditions to run, of the adopted config c
Permitted(c) ==
    /\ configs.BITSKY_BASE_URL
    /\ c.type # ""
    /\ ToUpper(c.type) = ToUpper(ProducerType)
    /\ c.globalId # ""
    /\ ToUpper(c.state) = "ACTIVE"

\* a tick that adopted a config that permits to run waits for the dispatch
\* of the job it ended, and will start the job loop after it
PendingStart == \E j \in Slots : dispatch[j].active /\ dispatch[j].cont = "start"

\* the dispatch a tick waits for ends
StartResumes ==
    \E j \in Slots :
       /\ dispatch[j].active /\ dispatch[j].cont = "start"
       /\ ~dispatch'[j].active
       /\ \E d \in Dests : DiaResponse(j, d) \/ SoiThrowsPlain(j, d)

DictKeys == {g \in Gids : runningJob.collectedIntelligencesDict[g] # NoRef}

\* C18: collectedIntelligencesNumber equals the number of keys of
\* collectedIntelligencesDict in every reachable state
C18_CountIsDictSize ==
    runningJob.collectedIntelligencesNumber = Cardinality(DictKeys)

\* C19: once ending is true for a job, a timeout or a worker completion that
\* fires while the job is being dispatched changes nothing of its record:
\* jobTimeout, the collected dict and count, and the states of its items
\* stay as reconciliation left them
C19_EndingJobNotMutated ==
    [][\A j, k \in Slots :
          /\ runningJob.jobId = j
          /\ runningJob.endingCollectIntelligencesJob
          /\ dispatch[j].active
          /\ Timeout(k) \/ Settle(k)
          => /\ runningJob'.jobTimeout = runningJob.jobTimeout
             /\ runningJob'.collectedIntelligencesDict = runningJob.collectedIntelligencesDict
             /\ runningJob'.collectedIntelligencesNumber
                   = runningJob.collectedIntelligencesNumber
             /\ runningJob'.totalIntelligences = runningJob.totalIntelligences
             /\ Snapshot(heap', runningJob.totalIntelligences)
                   = Snapshot(heap, runningJob.totalIntelligences)]_vars

\* C20: when getIntelligences returns an empty batch the worker is invoked
\* once with it, and when the worker returns the slot is released (jobId
\* absent, lockJob false); the dispatcher is not invoked, ranJobNumber is not
\* incremented and no timeout is armed
C20_EmptyBatch ==
    [][\A j \in Slots :
          /\ EmptyBatchReturned(j)
              => /\ pc'[j] = "idle"
                 /\ ranJobNumber' = ranJobNumber
                 /\ timeouts' = timeouts
                 /\ dispatch' = dispatch
          /\ WorkerReturns(j) /\ pc[j] = "idle"
              => /\ pc'[j] = "free"
                 /\ ranJobNumber' = ranJobNumber
                 /\ timeouts' = {}
                 /\ dispatch' = dispatch
                 /\ runningJob'.jobId = 0
                 /\ ~runningJob'.lockJob]_vars

\* the job the record holds was served an empty batch and its worker call
\* is pending: no job has counted, no timeout is armed
C20_Witness ==
    \E j \in Slots :
       /\ pc[j] = "idle"
       /\ Active(j)
       /\ ranJobNumber = 0
       /\ timeouts = {}
       /\ LoopTimers(intervals) # {}

\* the buckets of a dispatch with a request in flight
Pending(disp) == {d \in Dests : disp.buckets[d].st \in {"soi", "dia"}}

\* a request of dispatch j returns or throws
Answered(j) ==
    \E d \in Dests : SoiResponse(j, d) \/ DiaResponse(j, d) \/ SoiThrowsPlain(j, d)

\* C21: sendToSOIAndDIA completes whichever calls fail, and only when every
\* bucket is done: a dispatch is in flight exactly while a bucket has a
\* request pending, every answer leaves it in flight or completes it, and
\* the teardown of the job happens in the step that answers the last one
C21_DispatchWaitsForAllBuckets ==
    /\ [](\A j \in Slots : dispatch[j].active <=> Pending(dispatch[j]) # {})
    /\ [][\A j \in Slots :
             Answered(j) /\ runningJob.jobId = j
                         /\ runningJob.endingCollectIntelligencesJob
             => IF Pending(dispatch'[j]) # {}
                THEN /\ runningJob'.jobId = j
                     /\ runningJob'.endingCollectIntelligencesJob
                     /\ runningJob'.lockJob
                ELSE /\ ~dispatch'[j].active
                     /\ runningJob'.jobId # j]_vars

\* a job of two buckets is ending; one bucket is done, the other has its
\* update in flight, and the record still holds the job
C21_Witness ==
    \E j \in Slots :
       /\ runningJob.jobId = j
       /\ runningJob.endingCollectIntelligencesJob
       /\ Len(heap[j]) = 2
       /\ heap[j][1].dest = "a" /\ heap[j][2].dest = "b"
       /\ dispatch[j].buckets["a"].st = "none"
       /\ dispatch[j].buckets["b"].st = "dia"

\* C22: within a bucket the update of the control plane is issued only after
\* the POST to the target system has returned or failed: an update comes to
\* be in flight only in the step that answers the bucket's POST
C22_UpdateAfterPost ==
    [][\A j \in Slots, d \in Dests :
          dispatch'[j].buckets[d].st = "dia" /\ dispatch[j].buckets[d].st # "dia"
          => /\ dispatch[j].buckets[d].st = "soi"
             /\ SoiResponse(j, d)]_vars

\* the update of a bucket is in flight, after a POST that failed
C22_Witness ==
    \E j \in Slots, d \in Dests :
       /\ runningJob.jobId = j
       /\ dispatch[j].buckets[d].st = "dia"
       /\ \E i \in 1..Len(heap[j]) : heap[j][i].reason = "soi"

\* the globalIds of the items a list of references points to
GidsOf(h, list) == [i \in 1..Len(list) |-> h[list[i][1]][list[i][2]].gid]

\* C23: the reconciled list has the length of totalIntelligences as received
\* and its i-th entry has the globalId of the i-th received item, whatever
\* the batch and the outcomes: the step in which a job starts ending leaves
\* the sequence of globalIds of its list as it was
C23_ReconciledKeepsOrder ==
    [][\A j \in Slots :
          /\ runningJob.jobId = j /\ ~runningJob.endingCollectIntelligencesJob
          /\ runningJob'.jobId = j /\ runningJob'.endingCollectIntelligencesJob
          => GidsOf(heap', runningJob'.totalIntelligences)
               = GidsOf(heap, runningJob.totalIntelligences)]_vars

\* a job of two items is ending: the first item was collected, the second
\* had no outcome, and the list holds both in the order received
C23_Witness ==
    \E j \in Slots :
       /\ runningJob.jobId = j
       /\ runningJob.endingCollectIntelligencesJob
       /\ dispatch[j].active
       /\ runningJob.totalIntelligences = << <<j, 1>>, <<j, 2>> >>
       /\ heap[j][1].state = "FINISHED"
       /\ heap[j][2].reason = "unresolved"

\* the record is released by start(), stop() or a worker that returned
ReleasedOtherwise ==
    \/ Start
    \/ Stop
    \/ \E k \in Slots : WorkerReturns(k)

\* C24: after a job that had a non-empty batch is torn down, the next job is
\* acquired at once, without waiting for the next tick of the job loop: the
\* callback that tears it down leaves another job in the record, locked,
\* not ending, its fetch in flight
C24_TeardownAcquiresNext ==
    [][\A j \in Slots :
          /\ runningJob.jobId = j
          /\ Len(runningJob.totalIntelligences) > 0
          /\ runningJob'.jobId # j
          /\ ~ReleasedOtherwise
          => /\ runningJob'.jobId # 0
             /\ runningJob'.lockJob
             /\ ~runningJob'.endingCollectIntelligencesJob
             /\ runningJob'.totalIntelligences = <<>>
             /\ pc'[runningJob'.jobId] = "fetch"]_vars

\* the job loop is stopped and no tick is due, the first job served its
\* batch and is gone, and the second job's fetch is in flight
C24_Witness ==
    /\ LoopTimers(intervals) = {}
    /\ ranJobNumber = 1
    /\ pc = <<"free", "fetch">>
    /\ served = 1
    /\ runningJob.jobId = 2
    /\ runningJob.totalIntelligences = <<>>
    /\ \A j \in Slots : ~dispatch[j].active

\* C25: in every reachable state the record has a jobId exactly when lockJob
\* is true
C25_JobIdIffLock == (runningJob.jobId # 0) <=> runningJob.lockJob

\* a job was acquired, served its batch and was released by stop(): the
\* record has neither jobId nor lock while that job's dispatch is in flight
C25_Witness ==
    /\ runningJob.jobId = 0
    /\ ~runningJob.lockJob
    /\ ranJobNumber = 1
    /\ \E j \in Slots : dispatch[j].active

\* a tick of the watcher while the fetch of an earlier tick is in flight
OverlapTick ==
    /\ \E t \in intervals : t[1] = "watch"
    /\ configs.BITSKY_BASE_URL /\ configs.GLOBAL_ID
    /\ configFetches < MaxWatch + 1
    /\ Becomes([State EXCEPT !.fetches = @ + 1])

\* the producer started once, with ticks of the watcher that overlap
OverlapNext ==
    \/ calls = 0 /\ Start
    \/ SetConfigs
    \/ OverlapTick
    \/ ConfigResponse
    \/ ConfigError
    \/ JobLoopTick
    \/ \E j \in Slots : FetchResponse(j)
    \/ \E j \in Slots : WorkerReturns(j)
    \/ \E j \in Slots : Settle(j)
    \/ \E j \in Slots, d \in Dests : SoiResponse(j, d)
    \/ \E j \in Slots, d \in Dests : DiaResponse(j, d)

OverlapSpec == Init /\ [][OverlapNext]_vars

\* C27: at most one interval timer of the job loop is armed at any time, also
\* when ticks of the watcher overlap: every armed timer of the job loop is the
\* one the handle names
C27_OneLoopTimer ==
    LoopTimers(intervals) \subseteq {<<"loop", watchIntelligencesIntervalHandler>>}

\* three ticks overlap: the start of one awaits the end of the ending job,
\* a later one has armed the job loop, and the fetch of a third is in flight
C27_Witness ==
    /\ PendingStart
    /\ LoopTimers(intervals) # {}
    /\ configFetches > 0

\* ------------------------------------------------------------- the period
\* what the control plane may send as pollingInterval
RemoteIntervals == {Absent} \cup 0..MaxInterval

\* constants.DEFAULT_AGENT_CONFIGURATION.pollingInterval, whatever it is
DefaultIntervals == 1..MaxInterval

\* _.merge({}, DEFAULT_AGENT_CONFIGURATION, producer), line 211: a field the
\* remote config lacks takes the default
mergedInterval(remote, default) == IF remote = Absent THEN default ELSE remote

\* a period that is the larger of the two
pollingValueMax(interval, default) ==
    (IF interval > default THEN interval ELSE default) * 1000

\* pollingValue, lines 345-347: a || b is b when a is 0
pollingValue(interval, default) ==
    (IF interval # 0 THEN interval ELSE default) * 1000

\* getProducerConfiguration returns a config with pollingInterval r and
\* compareProducerConfiguration adopts it, lines 211 and 290
AdoptInterval ==
    /\ \E r \in RemoteIntervals : polling' = [polling EXCEPT !.remote = r]
    /\ UNCHANGED << ranJobNumber, currentProducerConfig, producerError,
                    watchIntelligencesIntervalHandler, watchProducerIntervalHandler,
                    intervals, runningJob, configs, configFetches, pc, timeouts,
                    heap, dispatch, fired, calls, served, grouping >>

\* startPollingGetIntelligences arms the timer, lines 343-353
ArmInterval ==
    /\ polling' = [polling EXCEPT !.value =
                      pollingValue(mergedInterval(polling.remote, polling.default),
                                   polling.default)]
    /\ UNCHANGED << ranJobNumber, currentProducerConfig, producerError,
                    watchIntelligencesIntervalHandler, watchProducerIntervalHandler,
                    intervals, runningJob, configs, configFetches, pc, timeouts,
                    heap, dispatch, fired, calls, served, grouping >>

PollInit ==
    /\ ProducerInit
    /\ polling \in [remote : RemoteIntervals, default : DefaultIntervals, value : {0}]
    /\ grouping = NoGrouping

PollNext == AdoptInterval \/ ArmInterval

PollSpec == PollInit /\ [][PollNext]_vars

\* C26 as stated: the period of the job loop is
\* max(remote.pollingInterval, default) * 1000 ms for every remote value,
\* also for values smaller than the default
C26_PeriodIsMax ==
    [][ArmInterval =>
          polling'.value =
             (IF polling.remote > polling.default
              THEN polling.remote ELSE polling.default) * 1000]_vars

\* C26, amended: the period of the job loop is remote.pollingInterval * 1000 ms
\* for every remote value that is present and not 0, also for values smaller
\* than the default, and default * 1000 ms otherwise
C26_PeriodIsRemoteOrDefault ==
    [][ArmInterval =>
          /\ polling.remote >= 1 => polling'.value = polling.remote * 1000
          /\ polling.remote < 1 => polling'.value = polling.default * 1000]_vars

\* the timer is armed with a remote value smaller than the default
C26_Witness ==
    /\ polling.remote >= 1
    /\ polling.remote < polling.default
    /\ polling.value = polling.remote * 1000

\* ------------------------------------------------------------- the grouping
\* soi.callback.method of an item, "" when missing
Methods == {"", "POST", "post", "PUT"}

\* what joinURL(callbackPath, baseUrl) returns for an item
JoinedUrls == {"http://s/cb", "HTTP://S/CB", "http://t/cb"}

\* the soi of an item: whether soi.baseURL and soi.callback.path are there,
\* the method, and the URL joinURL makes of the two
SoiItems == [baseURL : BOOLEAN, method : Methods, path : BOOLEAN, url : JoinedUrls]

\* the lists sendToSOIAndDIA may be given
SoiLists == UNION {[1..n -> SoiItems] : n \in 1..MaxGroup}

\* _.toLower on the strings the model uses
toLower(str) ==
    CASE str = "POST" -> "post"
      [] str = "PUT" -> "put"
      [] str = "HTTP://S/CB" -> "http://s/cb"
      [] OTHER -> str

\* a key of the method and the URL as they are
keyAsIs(item) == item.method \o ":" \o item.url

\* the key of line 637
key(item) == toLower(item.method) \o ":" \o toLower(item.url)

\* the grouping loop of sendToSOIAndDIA, lines 624-645: sois after the items
\* from position i on; a bucket is the list of the positions of its items
RECURSIVE groupBySoi(_, _, _)
groupBySoi(items, i, sois) ==
    IF i > Len(items) THEN sois
    ELSE IF ~items[i].baseURL \/ items[i].method = "" \/ ~items[i].path
         THEN groupBySoi(items, i + 1, sois)
         ELSE IF key(items[i]) \in DOMAIN sois
              THEN groupBySoi(items, i + 1,
                              [sois EXCEPT ![key(items[i])] = Append(@, i)])
              ELSE groupBySoi(items, i + 1, sois @@ (key(items[i]) :> <<i>>))

\* sendToSOIAndDIA groups the list it was given
Group ==
    /\ ~grouping.done
    /\ grouping' = [grouping EXCEPT !.sois = groupBySoi(grouping.items, 1, <<>>),
                                    !.done = TRUE]
    /\ UNCHANGED << ranJobNumber, currentProducerConfig, producerError,
                    watchIntelligencesIntervalHandler, watchProducerIntervalHandler,
                    intervals, runningJob, configs, configFetches, pc, timeouts,
                    heap, dispatch, fired, calls, served, polling >>

GroupInit ==
    /\ ProducerInit
    /\ polling = NoPolling
    /\ grouping \in [items : SoiLists, sois : {<<>>}, done : {FALSE}]

GroupNext == Group

GroupSpec == GroupInit /\ [][GroupNext]_vars

\* the item has the three soi fields
Complete(item) == item.baseURL /\ item.method # "" /\ item.path

\* the buckets that hold the item at position i; the update of lines 689-695
\* carries the items of its bucket
BucketsOf(i) ==
    {k \in DOMAIN grouping.sois :
        \E n \in 1..Len(grouping.sois[k]) : grouping.sois[k][n] = i}

\* C28: every item with the three soi fields is in exactly one bucket; two
\* such items share a bucket exactly when their lower-cased methods are
\* equal and their lower-cased joined URLs are equal; an item with a field
\* missing is in no bucket, hence in no update of the control plane
C28_Grouping ==
    grouping.done =>
       LET items == grouping.items
       IN  /\ \A i \in 1..Len(items) :
                 IF Complete(items[i])
                 THEN Cardinality(BucketsOf(i)) = 1
                 ELSE BucketsOf(i) = {}
           /\ \A i, j \in 1..Len(items) :
                 Complete(items[i]) /\ Complete(items[j])
                 => (BucketsOf(i) = BucketsOf(j)
                       <=> /\ toLower(items[i].method) = toLower(items[j].method)
                           /\ toLower(items[i].url) = toLower(items[j].url))

\* two items whose methods and URLs differ in case only share the one bucket
C28_Witness ==
    /\ grouping.done
    /\ Len(grouping.items) = 2
    /\ Complete(grouping.items[1]) /\ Complete(grouping.items[2])
    /\ grouping.items[1].method = "POST" /\ grouping.items[2].method = "post"
    /\ grouping.items[1].url = "HTTP://S/CB" /\ grouping.items[2].url = "http://s/cb"
    /\ DOMAIN grouping.sois = {"post:http://s/cb"}
    /\ grouping.sois["post:http://s/cb"] = <<1, 2>>

====
